---------------------------- MODULE Spec2Model ----------------------------
(***************************************************************************)
(* A model of the recipe document service (function_app.py, main.py):      *)
(* the HTTP front door http_start, the durable orchestration               *)
(* RecipeOrchestrator, the activities GetRecipes and GenerateDocuments,    *)
(* and the two renderers PDFGenerator and WordGenerator.                   *)
(*                                                                         *)
(* Four specifications share the module:                                   *)
(*   Spec        the whole service: requests, orchestrations, activities   *)
(*   FairSpec    Spec with the scheduling of the durable runtime           *)
(*   SpecLookup  the activity GetRecipes applied to bounded inputs         *)
(*   SpecRender  the renderers applied to bounded inputs                   *)
(***************************************************************************)
EXTENDS Integers, Sequences, FiniteSets, TLC

VARIABLES
    clock,      \* the last value read from datetime.utcnow(), in seconds
    http,       \* per request: the position and data of its http_start call
    instances,  \* the durable runtime's orchestration instances, by instance id
    dirs,       \* the temporary directories that exist: [name, by], `by` the
                \* instance whose GenerateDocuments invocation created it
    lk,         \* SpecLookup: one call of GetRecipes, its inputs and its result
    wg,         \* SpecRender: one WordGenerator instance: self.doc, and the
                \* calls of create_recipe_docx made on it
    rn          \* SpecRender: the last renderer call, its inputs and its output

vars == <<clock, http, instances, dirs, lk, wg, rn>>

(***************************************************************************)
(* Bounds of the model.                                                    *)
(***************************************************************************)
MaxClock == 1       \* utcnow() takes the seconds 0..MaxClock
MaxStored == 3      \* SpecLookup: longest stored recipe list
MaxIds == 2         \* SpecLookup: longest recipe_ids list
MaxRender == 2      \* SpecRender: longest list handed to a renderer
MaxDocxCalls == 2   \* SpecRender: calls of create_recipe_docx on one instance

Min(a, b) == IF a < b THEN a ELSE b

Range(s) == {s[i] : i \in 1..Len(s)}

SeqsUpTo(S, n) == UNION {[1..k -> S] : k \in 0..n}

(***************************************************************************)
(* Data.  A recipe is its name and its data (servings, costs, ingredients; *)
(* kept as one opaque value).  Two recipes may carry the same name: the    *)
(* code never checks that names are unique.                                *)
(***************************************************************************)
RecipeNames == {"a", "b", "c"}

RecipePool == {[name |-> "a", data |-> "d1"], [name |-> "a", data |-> "d2"],
               [name |-> "b", data |-> "d1"], [name |-> "c", data |-> "d1"]}

\* What json.loads of the generation service's answer can be, for a recipe:
\* an object with the six expected keys ("full"), the empty object {}
\* ("empty", falsy in Python), or an object lacking expected keys
\* ("nonconforming": json.loads accepts it, the renderer raises KeyError).
InstrShapes == {"full", "empty", "nonconforming"}

\* The shapes the service draws from in Spec.  The empty object goes through
\* GenerateDocuments as a full one does (it is appended, and no renderer
\* raises on it); what the renderers make of it is covered by SpecRender.
SynthShapes == {"full", "nonconforming"}

Instr(name, shape) == [for |-> name, shape |-> shape]

\* f"inventory-items-{user_id}"
InventoryKey(user_id) == <<"inventory-items-", user_id>>

\* dict.get(key, default) of a JSON object modelled as a record
DictGet(d, key, default) == IF key \in DOMAIN d THEN d[key] ELSE default

(***************************************************************************)
(* GetRecipes, function_app.py 164-189: the value it returns, given the    *)
(* items the query yields.  [r for r in recipes if r['name'] in recipe_ids]*)
(***************************************************************************)
\* Fault variant: only the first requested name is compared
RECURSIVE FilterByFirstId(_, _)
FilterByFirstId(recipes, recipe_ids) ==
    IF recipes = <<>> THEN <<>>
    ELSE LET r == Head(recipes)
             rest == FilterByFirstId(Tail(recipes), recipe_ids)
         IN IF r.name = recipe_ids[1] THEN <<r>> \o rest ELSE rest

RECURSIVE FilterByName(_, _)
FilterByName(recipes, recipe_ids) ==
    IF recipes = <<>> THEN <<>>
    ELSE LET r == Head(recipes)
             rest == FilterByName(Tail(recipes), recipe_ids)
         IN IF r.name \in Range(recipe_ids) THEN <<r>> \o rest ELSE rest

GetRecipes(items, user_id, recipe_ids) ==
    IF items # <<>>
    THEN LET user_doc == items[1]
             inventory_key == InventoryKey(user_id)
             by_key == DictGet(user_doc, "recipes", <<>>)
         IN IF inventory_key \in DOMAIN by_key
            THEN LET stored == by_key[inventory_key]
                     recipes == IF recipe_ids # <<>>
                                THEN FilterByName(stored, recipe_ids)
                                ELSE stored
                 IN IF recipes # <<>> THEN recipes ELSE <<>>
            ELSE <<>>
    ELSE <<>>

(***************************************************************************)
(* The renderers, main.py 94-185 and 204-283.  A document is the sequence  *)
(* of flowables / body elements appended to it; spacers and empty          *)
(* paragraphs are left out.                                                *)
(***************************************************************************)
PageBreak == [el |-> "PageBreak"]

Title(recipe) == [el |-> "Title", text |-> recipe.name]

\* Title, information table and ingredients table of one recipe
SectionHead(recipe) ==
    <<Title(recipe),
      [el |-> "InfoTable", data |-> recipe.data],
      [el |-> "IngredientsTable", data |-> recipe.data]>>

\* `if ai_instructions:` an empty object is falsy and the block is left out
Truthy(ai_instructions) == ai_instructions.shape # "empty"

\* ai_instructions['preparation_steps'] ... raise KeyError on a missing key
RaisesKeyError(ai_instructions) == ai_instructions.shape = "nonconforming"

InstructionBlock(ai_instructions) ==
    IF ~Truthy(ai_instructions) THEN <<>>
    ELSE IF RaisesKeyError(ai_instructions)
         THEN <<[el |-> "Heading", text |-> "Preparation Method"]>>
         ELSE <<[el |-> "Instructions", for |-> ai_instructions.for]>>

\* The loop over enumerate(zip(recipe_list, ai_instructions_list)) from
\* index idx (1-based here), appending to `doc`.  The result is the document
\* and whether an exception ended the loop.
RECURSIVE RenderLoop(_, _, _, _)
RenderLoop(doc, recipe_list, ai_instructions_list, idx) ==
    IF idx > Min(Len(recipe_list), Len(ai_instructions_list))
    THEN [raised |-> FALSE, doc |-> doc]
    ELSE LET recipe == recipe_list[idx]
             ai == ai_instructions_list[idx]
             brk == IF idx > 1 THEN <<PageBreak>> ELSE <<>>
             next == doc \o brk \o SectionHead(recipe) \o InstructionBlock(ai)
         IN IF Truthy(ai) /\ RaisesKeyError(ai)
            THEN [raised |-> TRUE, doc |-> next]
            ELSE RenderLoop(next, recipe_list, ai_instructions_list, idx + 1)

\* create_recipe_pdf: story = [] is local to the call
create_recipe_pdf(recipe_list, ai_instructions_list) ==
    RenderLoop(<<>>, recipe_list, ai_instructions_list, 1)

\* create_recipe_docx appends to self.doc, created once in __init__
create_recipe_docx(self_doc, recipe_list, ai_instructions_list) ==
    RenderLoop(self_doc, recipe_list, ai_instructions_list, 1)

\* base64.b64encode(bytes).decode() and base64.b64decode(content)
B64Encode(bytes) == [b64 |-> bytes]

B64Decode(content) == content.b64


(***************************************************************************)
(* The service.  Requests arrive at http_start; each accepted request      *)
(* starts an orchestration instance, whose two activities run as tasks of  *)
(* the durable runtime.                                                    *)
(***************************************************************************)
Reqs == {1, 2}

\* req.route_params.get('user_id'): "" stands for a missing user_id
UserIds == {"", "u1"}

NoneVal == [none |-> TRUE]

Str(s) == [t |-> "str", v |-> s]

Num(s) == [t |-> "num", v |-> s]

\* str.lower() on the format strings of the model
Lower(s) == CASE s = "PDF" -> "pdf"
              [] s = "DOCX" -> "docx"
              [] OTHER -> s

\* Request bodies: not JSON at all (get_json raises ValueError), JSON that
\* is not an object, and JSON objects holding some of the three keys.
Bodies ==
    { [json |-> "invalid"],
      [json |-> "array"],
      [json |-> "object", obj |-> [recipe_names |-> <<"a", "b">>, format |-> Str("PDF"), download |-> TRUE]],
      [json |-> "object", obj |-> [recipe_names |-> <<"b">>, format |-> Str("docx")]],
      [json |-> "object", obj |-> [recipe_names |-> <<"z">>]],
      [json |-> "object", obj |-> [recipe_names |-> <<>>, format |-> Str("pdf")]],
      [json |-> "object", obj |-> [format |-> Str("pdf"), download |-> TRUE]],
      [json |-> "object", obj |-> [recipe_names |-> <<"a">>, format |-> Str("xml")]],
      [json |-> "object", obj |-> [recipe_names |-> <<"a">>, format |-> Num("5")]] }

\* The document store, read-only: container.query_items(... c.id = @id)
Container ==
    [u \in {"u1"} |->
        <<[id |-> u,
           recipes |-> (InventoryKey(u) :>
                          <<[name |-> "a", data |-> "d1"],
                            [name |-> "b", data |-> "d1"],
                            [name |-> "c", data |-> "d1"]>>)]>>]

QueryItems(user_id) ==
    IF user_id \in DOMAIN Container THEN Container[user_id] ELSE <<>>

\* tempfile.mkdtemp() draws a fresh name
DirNames == {"tmp1", "tmp2"}

\* f"recipes-{user_id}-{utcnow().strftime('%Y%m%d-%H%M%S')}"
InstanceId(user_id, now) == <<"recipes-", user_id, now>>

InstanceIds == {InstanceId(u, s) : u \in UserIds \ {""}, s \in 0..MaxClock}

(***************************************************************************)
(* http_start, lines 35-70 and 116-122: the validation of a request.       *)
(***************************************************************************)
Reject(status, message) == [ok |-> FALSE, status |-> status, error |-> message]

Validate(user_id, body) ==
    IF user_id = ""
    THEN Reject(400, "Please provide a user_id in the URL")
    ELSE IF body.json = "invalid"
    THEN Reject(400, "Invalid request body")
    ELSE IF body.json # "object"
    THEN Reject(500, "AttributeError: no attribute 'get'")
    ELSE LET recipe_ids == DictGet(body.obj, "recipe_names", <<>>)
             fmt == DictGet(body.obj, "format", Str("pdf"))
             download == DictGet(body.obj, "download", FALSE)
         IN IF fmt.t # "str"
            THEN Reject(500, "AttributeError: no attribute 'lower'")
            ELSE LET format_type == Lower(fmt.v)
                 IN IF recipe_ids = <<>>
                    THEN Reject(400, "Please provide recipe_ids in the request body")
                    ELSE IF format_type \notin {"pdf", "docx"}
                    THEN Reject(400, "Format must be either 'pdf' or 'docx'")
                    ELSE [ok |-> TRUE, recipe_ids |-> recipe_ids,
                          format_type |-> format_type, download |-> download]

ErrorResponse(status, message) ==
    [status |-> status, kind |-> "json", body |-> [error |-> message]]

(***************************************************************************)
(* http_start, lines 87-114: the response, given the status read back.     *)
(***************************************************************************)
MimeType(format_type) ==
    IF format_type = "pdf" THEN "application/pdf"
    ELSE "application/vnd.openxmlformats-officedocument.wordprocessingml.document"

CheckStatusResponse(instance_id) ==
    [status |-> 202, kind |-> "check_status", instance_id |-> instance_id]

StatusResponse(status, user_id, format_type, download, instance_id) ==
    IF status.runtime_status = "Completed" /\ status.output.success
    THEN LET result == status.output
             content == DictGet(result.documents, format_type, NoneVal)
         IN IF download /\ content # NoneVal
            THEN [status |-> 200, kind |-> "binary",
                  body |-> B64Decode(content),
                  content_type |-> MimeType(format_type),
                  filename |-> <<"recipes_", user_id, format_type>>]
            ELSE [status |-> 200, kind |-> "json", body |-> result]
    ELSE CheckStatusResponse(instance_id)

(***************************************************************************)
(* The durable runtime's instance table.                                   *)
(***************************************************************************)
NoTask == [state |-> "none"]

NoGD == [pc |-> "none"]

\* GenerateDocuments has left: its locals are gone
LeftGD == [pc |-> "exit"]

\* What a run has done so far:
\*   synth_calls   the recipe names generate_instructions was called for, in order
\*   inflight      the calls of generate_instructions in progress
\*   synth_ok      the calls that returned instructions
\*   synth_failed  0, or the number of calls made when one raised
\*   renders       the renderer calls
\*   failed        whether a step of the run raised
\* Beside it, started_by is the request whose start_new created the run.
EmptyHist ==
    [synth_calls |-> <<>>, inflight |-> 0, synth_ok |-> 0, synth_failed |-> 0,
     renders |-> 0, failed |-> FALSE]

\* An instance id the runtime holds no instance for
NoInstance ==
    [runtime_status |-> "None", input |-> NoneVal, pc |-> "none",
     task |-> NoTask, lookup |-> NoTask, gd |-> NoGD, output |-> NoneVal,
     hist |-> EmptyHist, started_by |-> 0]

NewInstance(input) ==
    [runtime_status |-> "Pending", input |-> input, pc |-> "scheduled",
     task |-> NoTask, lookup |-> NoTask, gd |-> NoGD, output |-> NoneVal,
     hist |-> EmptyHist, started_by |-> 0]

\* client.start_new refuses an id whose instance is still running
StartNewRaises(instance) == instance.runtime_status \in {"Pending", "Running"}

Init ==
    /\ clock = 0
    /\ http = [r \in Reqs |-> [pc |-> "idle"]]
    /\ instances = [i \in InstanceIds |-> NoInstance]
    /\ dirs = {}
    /\ lk = [pc |-> "off"]
    /\ wg = [doc |-> <<>>, calls |-> 0]
    /\ rn = [pc |-> "off"]

\* http_start up to and including `await client.start_new(...)`.  Requests
\* are numbered in their order of arrival.
HttpStart(r) ==
    /\ http[r].pc = "idle"
    /\ \A q \in Reqs : q < r => http[q].pc # "idle"
    /\ \E user_id \in UserIds, body \in Bodies, now \in clock..MaxClock :
         LET v == Validate(user_id, body)
             instance_id == InstanceId(user_id, now)
             req == [user_id |-> user_id, body |-> body]
         IN IF ~v.ok
            THEN /\ http' = [http EXCEPT ![r] =
                        [pc |-> "responded", req |-> req, started |-> FALSE,
                         response |-> ErrorResponse(v.status, v.error)]]
                 /\ UNCHANGED <<clock, instances>>
            ELSE /\ clock' = now
                 /\ IF StartNewRaises(instances[instance_id])
                    THEN /\ http' = [http EXCEPT ![r] =
                                [pc |-> "responded", req |-> req, started |-> FALSE,
                                 response |-> ErrorResponse(500, "start_new failed")]]
                         /\ UNCHANGED instances
                    ELSE /\ http' = [http EXCEPT ![r] =
                                [pc |-> "started", req |-> req,
                                 format_type |-> v.format_type,
                                 download |-> v.download,
                                 instance_id |-> instance_id]]
                         /\ instances' = [instances EXCEPT ![instance_id] =
                                [NewInstance([user_id |-> user_id,
                                              recipe_ids |-> v.recipe_ids,
                                              format |-> v.format_type,
                                              download |-> v.download])
                                    EXCEPT !.started_by = r]]
    /\ UNCHANGED <<dirs, lk, wg, rn>>

\* http_start from `await client.get_status(instance_id)` to its return
HttpCheckStatus(r) ==
    /\ http[r].pc = "started"
    /\ LET h == http[r]
           inst == instances[h.instance_id]
           status == [runtime_status |-> inst.runtime_status, output |-> inst.output]
       IN http' = [http EXCEPT ![r] =
                [pc |-> "responded", req |-> h.req, started |-> TRUE,
                 format_type |-> h.format_type, download |-> h.download,
                 instance_id |-> h.instance_id, seen |-> status,
                 seen_run |-> inst.started_by,
                 response |-> StatusResponse(status, h.req.user_id, h.format_type,
                                             h.download, h.instance_id)]]
    /\ UNCHANGED <<clock, instances, dirs, lk, wg, rn>>


(***************************************************************************)
(* RecipeOrchestrator, lines 125-161.  The orchestrator function runs up   *)
(* to its next `yield`, the runtime runs the activity, and the function    *)
(* resumes with the activity's value or exception.                         *)
(***************************************************************************)
NoRecipesResult == [success |-> FALSE, message |-> "No recipes found"]

FailureResult(message) == [success |-> FALSE, error |-> message]

SuccessResult(documents) == [success |-> TRUE, documents |-> documents]

Returns(result) == [runtime_status |-> "Completed", output |-> result]

\* what an orchestrator function that lets an exception escape ends as
Propagates == [runtime_status |-> "Failed", output |-> NoneVal]

CallsGenerateDocuments == [runtime_status |-> "Running", output |-> NoneVal]

\* Fault variant: the `if not recipes` test of lines 138-142 is missing
AfterGetRecipesNoEmptyCheck(task) ==
    IF task.state = "raised" THEN Returns(FailureResult(task.error))
    ELSE CallsGenerateDocuments

\* lines 133-149 and 156-161, resumed after GetRecipes
AfterGetRecipes(task) ==
    IF task.state = "raised" THEN Returns(FailureResult(task.error))
    ELSE IF task.value = <<>> THEN Returns(NoRecipesResult)
    ELSE CallsGenerateDocuments

\* Fault variant: no `except Exception` around the second activity call
AfterGenerateDocumentsNoCatch(task) ==
    IF task.state = "raised" THEN Propagates
    ELSE Returns(SuccessResult(task.value))

\* lines 145-161, resumed after GenerateDocuments
AfterGenerateDocuments(task) ==
    IF task.state = "raised" THEN Returns(FailureResult(task.error))
    ELSE Returns(SuccessResult(task.value))

OrchStart(i) ==
    /\ instances[i].runtime_status = "Pending"
    /\ instances[i].pc = "scheduled"
    /\ instances' = [instances EXCEPT ![i].runtime_status = "Running",
                                      ![i].pc = "await_GetRecipes",
                                      ![i].task = [state |-> "running", name |-> "GetRecipes"]]
    /\ UNCHANGED <<clock, http, dirs, lk, wg, rn>>

\* The activity GetRecipes: its value, or the exception of a storage fault
\* (lines 191-193 log and re-raise).
GetRecipesActivity(i) ==
    /\ instances[i].pc = "await_GetRecipes"
    /\ instances[i].task.state = "running"
    /\ LET in == instances[i].input
           value == GetRecipes(QueryItems(in.user_id), in.user_id, in.recipe_ids)
       IN \/ instances' = [instances EXCEPT
                  ![i].task = [state |-> "returned", name |-> "GetRecipes", value |-> value]]
          \/ instances' = [instances EXCEPT
                  ![i].task = [state |-> "raised", name |-> "GetRecipes",
                               error |-> "storage fault"],
                  ![i].hist.failed = TRUE]
    /\ UNCHANGED <<clock, http, dirs, lk, wg, rn>>

OrchAfterGetRecipes(i) ==
    /\ instances[i].pc = "await_GetRecipes"
    /\ instances[i].task.state \in {"returned", "raised"}
    /\ LET inst == instances[i]
           step == AfterGetRecipes(inst.task)
       IN IF step = CallsGenerateDocuments
          THEN instances' = [instances EXCEPT
                   ![i].pc = "await_GenerateDocuments",
                   ![i].lookup = inst.task,
                   ![i].task = [state |-> "running", name |-> "GenerateDocuments"],
                   ![i].gd = [pc |-> "start",
                              user_id |-> inst.input.user_id,
                              recipes |-> IF inst.task.state = "returned"
                                          THEN inst.task.value ELSE <<>>,
                              format_type |-> inst.input.format,
                              idx |-> 1, ai_instructions_list |-> <<>>,
                              temp_dir |-> "", file |-> <<>>,
                              ret |-> NoneVal, exc |-> ""]]
          ELSE instances' = [instances EXCEPT
                   ![i].pc = "done",
                   ![i].lookup = inst.task,
                   ![i].runtime_status = step.runtime_status,
                   ![i].output = step.output]
    /\ UNCHANGED <<clock, http, dirs, lk, wg, rn>>

OrchAfterGenerateDocuments(i) ==
    /\ instances[i].pc = "await_GenerateDocuments"
    /\ instances[i].task.state \in {"returned", "raised"}
    /\ LET step == AfterGenerateDocuments(instances[i].task)
       IN instances' = [instances EXCEPT
                ![i].pc = "done",
                ![i].runtime_status = step.runtime_status,
                ![i].output = step.output]
    /\ UNCHANGED <<clock, http, dirs, lk, wg, rn>>


(***************************************************************************)
(* GenerateDocuments, lines 196-241, one action per step between two       *)
(* external calls.  gd holds the locals of the running invocation.         *)
(***************************************************************************)
\* Fault variant: the loop stops one recipe early
LoopDoneEarly(gd) == gd.idx >= Len(gd.recipes)

\* `for recipe in recipes:` has no recipe left
LoopDone(gd) == gd.idx > Len(gd.recipes)

\* Fault variant: insert(0, ai_instructions)
AppendInstructionsInFront(ai_instructions_list, ai_instructions) ==
    <<ai_instructions>> \o ai_instructions_list

\* ai_instructions_list.append(ai_instructions)
AppendInstructions(ai_instructions_list, ai_instructions) ==
    Append(ai_instructions_list, ai_instructions)

\* Fault variant: the loop catches the exception and goes on with empty
\* instructions for that recipe
SynthRaisesSwallowed(gd) ==
    [gd EXCEPT !.pc = "loop", !.idx = @ + 1,
               !.ai_instructions_list = Append(@, Instr(gd.recipes[gd.idx].name, "empty"))]

\* generate_instructions raises (main.py 69-71): nothing in the loop catches
\* it, so the invocation leaves through `except Exception ... raise` (239-241)
SynthRaises(gd) == [gd EXCEPT !.pc = "exit", !.exc = "generation failed"]

\* Fault variant: rmtree after the `with` block instead of in `finally`
RmtreeOnSuccessOnly(existing, gd) ==
    IF gd.exc = "" THEN {d \in existing : d.name # gd.temp_dir} ELSE existing

\* finally: shutil.rmtree(temp_dir, ignore_errors=True)
Rmtree(existing, gd) == {d \in existing : d.name # gd.temp_dir}

\* The state of the activity's task once the invocation has left
TaskOf(gd) ==
    IF gd.exc = ""
    THEN [state |-> "returned", name |-> "GenerateDocuments", value |-> gd.ret]
    ELSE [state |-> "raised", name |-> "GenerateDocuments", error |-> gd.exc]

GDRunning(i) ==
    /\ instances[i].pc = "await_GenerateDocuments"
    /\ instances[i].task.state = "running"

\* lines 197-211
GDBegin(i) ==
    /\ GDRunning(i)
    /\ instances[i].gd.pc = "start"
    /\ LET gd == instances[i].gd
       IN IF gd.recipes = <<>>
          THEN LET left == [gd EXCEPT !.pc = "exit", !.exc = "No recipes data provided"]
               IN instances' = [instances EXCEPT ![i].gd = LeftGD,
                                                 ![i].task = TaskOf(left),
                                                 ![i].hist.failed = TRUE]
          ELSE instances' = [instances EXCEPT ![i].gd.pc = "loop"]
    /\ UNCHANGED <<clock, http, dirs, lk, wg, rn>>

\* lines 212-216: the call of generate_instructions for the next recipe
GDSynthCall(i) ==
    /\ GDRunning(i)
    /\ instances[i].gd.pc = "loop"
    /\ ~LoopDone(instances[i].gd)
    /\ LET gd == instances[i].gd
       IN instances' = [instances EXCEPT
                ![i].gd.pc = "in_call",
                ![i].hist.synth_calls = Append(@, gd.recipes[gd.idx].name),
                ![i].hist.inflight = @ + 1]
    /\ UNCHANGED <<clock, http, dirs, lk, wg, rn>>

\* line 217: the call returned the parsed JSON object
GDSynthReturn(i) ==
    /\ GDRunning(i)
    /\ instances[i].gd.pc = "in_call"
    /\ LET gd == instances[i].gd
       IN \E shape \in SynthShapes :
            instances' = [instances EXCEPT
                ![i].gd.pc = "loop",
                ![i].gd.idx = @ + 1,
                ![i].gd.ai_instructions_list =
                    AppendInstructions(@, Instr(gd.recipes[gd.idx].name, shape)),
                ![i].hist.synth_ok = @ + 1,
                ![i].hist.inflight = @ - 1]
    /\ UNCHANGED <<clock, http, dirs, lk, wg, rn>>

\* the call raised: the request failed, or json.loads rejected the answer
GDSynthRaise(i) ==
    /\ GDRunning(i)
    /\ instances[i].gd.pc = "in_call"
    /\ LET left == SynthRaises(instances[i].gd)
       IN instances' = [instances EXCEPT
                ![i].gd = IF left.pc = "exit" THEN LeftGD ELSE left,
                ![i].task = IF left.pc = "exit" THEN TaskOf(left) ELSE @,
                ![i].hist.synth_failed = Len(instances[i].hist.synth_calls),
                ![i].hist.failed = TRUE,
                ![i].hist.inflight = @ - 1]
    /\ UNCHANGED <<clock, http, dirs, lk, wg, rn>>

\* line 220
GDMkdtemp(i) ==
    /\ GDRunning(i)
    /\ instances[i].gd.pc = "loop"
    /\ LoopDone(instances[i].gd)
    /\ \E d \in DirNames \ {x.name : x \in dirs} :
         /\ dirs' = dirs \cup {[name |-> d, by |-> i]}
         /\ instances' = [instances EXCEPT ![i].gd.pc = "render", ![i].gd.temp_dir = d]
    /\ UNCHANGED <<clock, http, lk, wg, rn>>

\* lines 227-228 and 231-232: the renderer writes the file, raises KeyError
\* on a nonconforming instructions object, or fails writing.  The
\* WordGenerator is the one made at line 208, its document still empty.
GDRender(i) ==
    /\ GDRunning(i)
    /\ instances[i].gd.pc = "render"
    /\ LET gd == instances[i].gd
           out == IF gd.format_type = "pdf"
                  THEN create_recipe_pdf(gd.recipes, gd.ai_instructions_list)
                  ELSE create_recipe_docx(<<>>, gd.recipes, gd.ai_instructions_list)
       IN \/ /\ ~out.raised
             /\ instances' = [instances EXCEPT ![i].gd.pc = "read",
                                               ![i].gd.file = out.doc,
                                               ![i].hist.renders = @ + 1]
          \/ /\ out.raised
             /\ instances' = [instances EXCEPT ![i].gd.pc = "finally",
                                               ![i].gd.exc = "KeyError",
                                               ![i].hist.renders = @ + 1,
                                               ![i].hist.failed = TRUE]
          \/ instances' = [instances EXCEPT ![i].gd.pc = "finally",
                                            ![i].gd.exc = "OSError: write",
                                            ![i].hist.renders = @ + 1,
                                            ![i].hist.failed = TRUE]
    /\ UNCHANGED <<clock, http, dirs, lk, wg, rn>>

\* lines 229-230 and 233-234: open, read, encode
GDReadFile(i) ==
    /\ GDRunning(i)
    /\ instances[i].gd.pc = "read"
    /\ LET gd == instances[i].gd
       IN \/ instances' = [instances EXCEPT
                  ![i].gd.pc = "finally",
                  ![i].gd.ret = IF gd.format_type = "pdf"
                                THEN [pdf |-> B64Encode(gd.file)]
                                ELSE [docx |-> B64Encode(gd.file)]]
          \/ instances' = [instances EXCEPT ![i].gd.pc = "finally",
                                            ![i].gd.exc = "OSError: read",
                                            ![i].hist.failed = TRUE]
    /\ UNCHANGED <<clock, http, dirs, lk, wg, rn>>

\* lines 236-241: the finally clause, then the return or the re-raise
GDFinally(i) ==
    /\ GDRunning(i)
    /\ instances[i].gd.pc = "finally"
    /\ LET left == [instances[i].gd EXCEPT !.pc = "exit"]
       IN /\ dirs' = Rmtree(dirs, left)
          /\ instances' = [instances EXCEPT ![i].gd = LeftGD, ![i].task = TaskOf(left)]
    /\ UNCHANGED <<clock, http, lk, wg, rn>>

\* The steps of run i: the orchestrator function and its activities
RunStep(i) ==
    \/ OrchStart(i)
    \/ GetRecipesActivity(i)
    \/ OrchAfterGetRecipes(i)
    \/ GDBegin(i)
    \/ GDSynthCall(i)
    \/ GDSynthReturn(i)
    \/ GDSynthRaise(i)
    \/ GDMkdtemp(i)
    \/ GDRender(i)
    \/ GDReadFile(i)
    \/ GDFinally(i)
    \/ OrchAfterGenerateDocuments(i)

Next ==
    \/ \E r \in Reqs : HttpStart(r) \/ HttpCheckStatus(r)
    \/ \E i \in InstanceIds : RunStep(i)

Spec == Init /\ [][Next]_vars

\* The durable runtime dispatches every scheduled orchestrator episode and
\* activity, and every external call (store query, generation request, file
\* operation) returns or raises: a run that can take a step takes one.
FairSpec == Spec /\ \A i \in InstanceIds : WF_vars(RunStep(i))


(***************************************************************************)
(* Properties of the service, checked under Spec.                          *)
(***************************************************************************)
\* GetRecipes of run i has returned the empty list
LookupEmpty(i) ==
    \/ /\ instances[i].pc = "await_GetRecipes"
       /\ instances[i].task.state = "returned"
       /\ instances[i].task.value = <<>>
    \/ /\ instances[i].lookup.state = "returned"
       /\ instances[i].lookup.value = <<>>

\* C1: a run whose GetRecipes yields the empty list ends, as soon as the
\* orchestrator resumes, with {success: false, message: "No recipes found"};
\* GenerateDocuments is never invoked in it, so the synthesizer and the
\* renderers are never called.
C1_EmptyLookupShortCircuits ==
    \A i \in InstanceIds :
        LookupEmpty(i) =>
            /\ instances[i].gd = NoGD
            /\ instances[i].hist.synth_calls = <<>>
            /\ instances[i].hist.renders = 0
            /\ instances[i].lookup # NoTask =>
                 /\ instances[i].pc = "done"
                 /\ instances[i].runtime_status = "Completed"
                 /\ instances[i].output = NoRecipesResult

C1_Witness ==
    \E i \in InstanceIds :
        /\ instances[i].lookup.state = "returned"
        /\ instances[i].lookup.value = <<>>
        /\ instances[i].pc = "done"

\* The claim's four validation failures, read off the request alone
FailsValidation(req) ==
    \/ req.user_id = ""
    \/ req.body.json # "object"
    \/ DictGet(req.body.obj, "recipe_names", <<>>) = <<>>
    \/ LET fmt == DictGet(req.body.obj, "format", Str("pdf"))
       IN fmt.t # "str" \/ Lower(fmt.v) \notin {"pdf", "docx"}

\* C2 (as claimed): a request that reads the status Completed answers with
\* the binary document (download and success) or with the run's JSON result,
\* whatever the result; the polling handle is given only for a run that has
\* not completed.
C2_CompletedRunIsAnswered ==
    \A r \in Reqs :
        (http[r].pc = "responded" /\ http[r].started) =>
            LET seen == http[r].seen
                resp == http[r].response
            IN /\ seen.runtime_status = "Completed" =>
                    \/ /\ resp.kind = "binary"
                       /\ http[r].download
                       /\ seen.output.success
                    \/ /\ resp.kind = "json"
                       /\ resp.body = seen.output
               /\ resp.kind = "check_status" => seen.runtime_status # "Completed"

\* C3 (as claimed): a request that fails validation gets a 400 with an
\* {error: message} body and starts no workflow; a workflow is started only
\* by a request that passes the four checks.
C3_InvalidRequestRejected ==
    \A r \in Reqs :
        http[r].pc # "idle" =>
            /\ (http[r].pc = "responded" /\ FailsValidation(http[r].req)) =>
                 /\ http[r].response.status = 400
                 /\ http[r].response.kind = "json"
                 /\ DOMAIN http[r].response.body = {"error"}
                 /\ ~http[r].started
            /\ (http[r].pc = "started" \/ http[r].started) =>
                 ~FailsValidation(http[r].req)

\* C4: a run in which a step raised (GetRecipes, a synthesizer call, a
\* renderer, the file read) is completed with {success: false, error: message},
\* the message being the failed activity's; no run ends with an exception
\* escaping the orchestrator, none reports success after a failed step, and
\* GenerateDocuments is not invoked after a failed GetRecipes.
C4_FailureIsStructuredResult ==
    \A i \in InstanceIds :
        /\ instances[i].runtime_status # "Failed"
        /\ instances[i].lookup.state = "raised" => instances[i].gd = NoGD
        /\ (instances[i].pc = "done" /\ instances[i].hist.failed) =>
             /\ instances[i].runtime_status = "Completed"
             /\ instances[i].task.state = "raised"
             /\ instances[i].output = [success |-> FALSE, error |-> instances[i].task.error]
        /\ (instances[i].pc = "done" /\ instances[i].output.success) =>
             ~instances[i].hist.failed

C4_Witness ==
    \E i \in InstanceIds :
        /\ instances[i].pc = "done"
        /\ instances[i].hist.failed
        /\ instances[i].task.name = "GenerateDocuments"
        /\ instances[i].hist.renders = 1

\* C5: once a synthesizer call has raised in a run, no further synthesizer
\* call is made, no renderer is called, no temporary directory is made, the
\* activity ends raising and the run's result holds no documents; a renderer
\* is called, and a run succeeds, only after a successful synthesizer call
\* for every recipe.
C5_NoPartialSuccess ==
    \A i \in InstanceIds :
        LET inst == instances[i]
            h == inst.hist
        IN /\ h.synth_failed > 0 =>
                /\ Len(h.synth_calls) = h.synth_failed
                /\ h.inflight = 0
                /\ h.renders = 0
                /\ inst.gd = LeftGD
                /\ inst.task.state = "raised"
                /\ ~\E d \in dirs : d.by = i
                /\ inst.pc = "done" =>
                     /\ ~inst.output.success
                     /\ "documents" \notin DOMAIN inst.output
           /\ (h.renders > 0 \/ (inst.pc = "done" /\ inst.output.success)) =>
                /\ h.synth_failed = 0
                /\ h.synth_ok = Len(inst.lookup.value)

C5_Witness ==
    \E i \in InstanceIds :
        /\ instances[i].hist.synth_failed = 1
        /\ Len(instances[i].lookup.value) = 2
        /\ instances[i].pc = "done"
        /\ \E j \in InstanceIds :
             /\ instances[j].hist.synth_failed = 2
             /\ instances[j].pc = "done"

\* GenerateDocuments of run i holds a temporary directory
HoldsDir(i) == instances[i].gd.pc \in {"render", "read", "finally"}

\* C6: when GenerateDocuments has left, by return or by exception, no
\* directory it created exists; while it holds its directory, the directory
\* exists, was created by it, and is held by no other invocation.
C6_ScratchRemoved ==
    \A i \in InstanceIds :
        /\ ~HoldsDir(i) => ~\E d \in dirs : d.by = i
        /\ HoldsDir(i) =>
             /\ [name |-> instances[i].gd.temp_dir, by |-> i] \in dirs
             /\ \A j \in InstanceIds \ {i} :
                  HoldsDir(j) => instances[j].gd.temp_dir # instances[i].gd.temp_dir

C6_Witness ==
    \E i, j \in InstanceIds :
        /\ i # j
        /\ instances[i].task.state = "raised"
        /\ instances[i].task.name = "GenerateDocuments"
        /\ instances[i].task.error = "OSError: read"
        /\ instances[j].task.state = "raised"
        /\ instances[j].task.name = "GenerateDocuments"
        /\ instances[j].task.error = "KeyError"
        /\ dirs = {}

NamesOf(recipes) == [k \in 1..Len(recipes) |-> recipes[k].name]

\* C8: at most one synthesizer call is in progress; the calls made so far
\* are for the first recipes of the list, in order, one each; and the list
\* the renderer gets has an entry for every recipe, the k-th synthesized
\* for the k-th recipe.
C8_OneCallPerRecipeInOrder ==
    \A i \in InstanceIds :
        LET inst == instances[i]
            h == inst.hist
        IN /\ h.inflight <= 1
           /\ inst.gd.pc \in {"loop", "in_call"} =>
                /\ h.synth_calls = SubSeq(NamesOf(inst.gd.recipes), 1, Len(h.synth_calls))
                /\ Len(h.synth_calls) = Len(inst.gd.ai_instructions_list) + h.inflight
           /\ HoldsDir(i) =>
                /\ h.inflight = 0
                /\ h.synth_calls = NamesOf(inst.gd.recipes)
                /\ Len(inst.gd.ai_instructions_list) = Len(inst.gd.recipes)
                /\ \A k \in 1..Len(inst.gd.recipes) :
                     inst.gd.ai_instructions_list[k].for = inst.gd.recipes[k].name
           /\ (inst.pc = "done" /\ inst.output.success) =>
                /\ h.synth_calls = NamesOf(inst.lookup.value)
                /\ h.synth_ok = Len(inst.lookup.value)

C8_Witness ==
    \E i \in InstanceIds :
        /\ instances[i].pc = "done"
        /\ instances[i].output.success
        /\ instances[i].hist.synth_calls = <<"a", "b">>


\* Run i is between its start and its result
InProgress(i) == instances[i].runtime_status \in {"Pending", "Running"}

\* The steps of run i in progress: the GetRecipes task, a synthesizer call,
\* the rendering (from mkdtemp to the finally clause)
LookupRunning(i) ==
    instances[i].task.state = "running" /\ instances[i].task.name = "GetRecipes"

C10_Sequential ==
    \A i \in InstanceIds :
        LET inst == instances[i]
            h == inst.hist
        IN /\ h.inflight <= 1
           /\ (h.synth_calls # <<>> \/ h.inflight > 0 \/ inst.gd # NoGD) =>
                /\ inst.lookup.state = "returned"
                /\ ~LookupRunning(i)
           /\ (HoldsDir(i) \/ h.renders > 0) =>
                /\ h.inflight = 0
                /\ h.synth_ok = Len(inst.lookup.value)
                /\ h.synth_calls = NamesOf(inst.lookup.value)
           /\ h.inflight = 1 => inst.gd.pc = "in_call"

\* C10: within a run, no synthesizer call starts before GetRecipes has
\* returned and the orchestrator resumed, at most one synthesizer call is in
\* progress, and rendering starts only after the call for the last recipe
\* has returned; and, the runtime dispatching its steps and the external
\* calls returning, every started run reaches its result.
C10_SequentialAndTerminates ==
    /\ []C10_Sequential
    /\ \A i \in InstanceIds :
         InProgress(i) ~> (instances[i].runtime_status = "Completed")

C10_Witness ==
    \E i, j \in InstanceIds :
        /\ i # j
        /\ instances[i].runtime_status = "Completed"
        /\ instances[i].output.success
        /\ Len(instances[i].hist.synth_calls) = 2
        /\ instances[j].hist.inflight = 1

\* Request r got past `await client.start_new(...)`, line 85
Started(r) == "instance_id" \in DOMAIN http[r]

\* Request r has read the status of its instance id, line 88
ReadStatus(r) == http[r].pc = "responded" /\ http[r].started

\* Any two requests that started a workflow did so under distinct ids
C11_DistinctInstanceIds ==
    \A r, q \in Reqs :
        (r # q /\ Started(r) /\ Started(q)) =>
            http[r].instance_id # http[q].instance_id

\* The status a request reads back is the status of the run it started
C11_ReadsOwnRun ==
    \A r \in Reqs : ReadStatus(r) => http[r].seen_run = r

\* C11 (as claimed): any two accepted requests are started under distinct
\* workflow instance ids, two requests of one user_id within one clock
\* second included, and the status a request reads back is always the
\* status of the run that request itself started.
C11_OwnRunUnderDistinctId ==
    /\ C11_DistinctInstanceIds
    /\ C11_ReadsOwnRun


(***************************************************************************)
(* SpecLookup: the activity GetRecipes on its own, for every user id,      *)
(* every list of requested names and every query result within the bounds.*)
(***************************************************************************)
LkUsers == {"u1", "u2"}

LkRecipeIds == SeqsUpTo({"a", "b", "z"}, MaxIds)

LkStored == SeqsUpTo(RecipePool, MaxStored)

\* The other user's recipes, when the document holds them too
LkOther == <<[name |-> "a", data |-> "d2"], [name |-> "z", data |-> "d1"]>>

OtherUser(u) == IF u = "u1" THEN "u2" ELSE "u1"

\* The documents the query can yield for user u: without a 'recipes' key,
\* with an empty one, with the user's inventory key, with another key, with both
LkDocs(u) ==
    {[id |-> u], [id |-> u, recipes |-> <<>>],
     [id |-> u, recipes |-> (InventoryKey(OtherUser(u)) :> LkOther)]}
    \cup {[id |-> u, recipes |-> (InventoryKey(u) :> l)] : l \in LkStored}
    \cup {[id |-> u, recipes |-> (InventoryKey(u) :> l @@ InventoryKey(OtherUser(u)) :> LkOther)] :
            l \in LkStored}

InitLookup ==
    /\ clock = 0
    /\ http = [r \in Reqs |-> [pc |-> "idle"]]
    /\ instances = [i \in InstanceIds |-> NoInstance]
    /\ dirs = {}
    /\ wg = [doc |-> <<>>, calls |-> 0]
    /\ rn = [pc |-> "off"]
    /\ \E u \in LkUsers, ids \in LkRecipeIds :
         \E items \in {<<>>} \cup {<<d>> : d \in LkDocs(u)} :
            lk = [pc |-> "call", user_id |-> u, recipe_ids |-> ids, items |-> items]

\* lines 165-189
LookupReturn ==
    /\ lk.pc = "call"
    /\ lk' = [pc |-> "returned", user_id |-> lk.user_id, recipe_ids |-> lk.recipe_ids,
              items |-> lk.items,
              result |-> GetRecipes(lk.items, lk.user_id, lk.recipe_ids)]
    /\ UNCHANGED <<clock, http, instances, dirs, wg, rn>>

\* lines 191-193: the query raised
LookupRaise ==
    /\ lk.pc = "call"
    /\ lk' = [pc |-> "raised", user_id |-> lk.user_id, recipe_ids |-> lk.recipe_ids,
              items |-> lk.items]
    /\ UNCHANGED <<clock, http, instances, dirs, wg, rn>>

NextLookup == LookupReturn \/ LookupRaise

SpecLookup == InitLookup /\ [][NextLookup]_vars

\* The user's stored recipes: the list under the user's inventory key in the
\* user's document, empty when there is no document or no such key
StoredOf(items, user_id) ==
    IF items = <<>> THEN <<>>
    ELSE IF "recipes" \notin DOMAIN items[1] THEN <<>>
    ELSE IF InventoryKey(user_id) \notin DOMAIN items[1].recipes THEN <<>>
    ELSE items[1].recipes[InventoryKey(user_id)]

\* `result` is the subsequence of `stored` at the positions whose recipe
\* carries a requested name, in stored order
IsNameFilterOf(result, stored, recipe_ids) ==
    LET Hits == {k \in 1..Len(stored) : \E n \in 1..Len(recipe_ids) : stored[k].name = recipe_ids[n]}
        Kth(k) == CHOOSE j \in Hits : Cardinality({m \in Hits : m <= j}) = k
    IN /\ Len(result) = Cardinality(Hits)
       /\ \A k \in 1..Len(result) : result[k] = stored[Kth(k)]

RnRecipes == SeqsUpTo({[name |-> "a", data |-> "d1"], [name |-> "b", data |-> "d1"]}, MaxRender)

RnInstructions == SeqsUpTo({Instr("a", shape) : shape \in InstrShapes}, MaxRender)

InitRender ==
    /\ clock = 0
    /\ http = [r \in Reqs |-> [pc |-> "idle"]]
    /\ instances = [i \in InstanceIds |-> NoInstance]
    /\ dirs = {}
    /\ lk = [pc |-> "off"]
    /\ wg = [doc |-> <<>>, calls |-> 0]
    /\ rn = [pc |-> "idle"]

\* What a renderer call leaves: the file written at output_path when the call
\* returned, nothing when it raised before doc.build / self.doc.save
Rendered(kind, recipe_list, ai_instructions_list, out, first) ==
    [pc |-> kind, recipe_list |-> recipe_list,
     ai_instructions_list |-> ai_instructions_list,
     raised |-> out.raised, first_call |-> first,
     file |-> IF out.raised THEN <<>> ELSE out.doc]

\* PDFGenerator().create_recipe_pdf(recipe_list, ai_instructions_list, path).
\* The call keeps nothing from one call to the next (story is a local), so
\* it is made from the initial state only.
CreatePdf ==
    /\ rn.pc = "idle"
    /\ \E recipe_list \in RnRecipes, ai_instructions_list \in RnInstructions :
         rn' = Rendered("pdf", recipe_list, ai_instructions_list,
                        create_recipe_pdf(recipe_list, ai_instructions_list), TRUE)
    /\ UNCHANGED <<clock, http, instances, dirs, lk, wg>>

\* word_generator.create_recipe_docx(recipe_list, ai_instructions_list, path)
CreateDocx ==
    /\ wg.calls < MaxDocxCalls
    /\ \E recipe_list \in RnRecipes, ai_instructions_list \in RnInstructions :
         LET out == create_recipe_docx(wg.doc, recipe_list, ai_instructions_list)
         IN /\ rn' = Rendered("docx", recipe_list, ai_instructions_list, out, wg.calls = 0)
            /\ wg' = [doc |-> out.doc, calls |-> wg.calls + 1]
    /\ UNCHANGED <<clock, http, instances, dirs, lk>>

\* WordGenerator(): __init__ makes self.doc = Document()
NewWordGenerator ==
    /\ wg.calls > 0
    /\ wg' = [doc |-> <<>>, calls |-> 0]
    /\ UNCHANGED <<clock, http, instances, dirs, lk, rn>>

NextRender == CreatePdf \/ CreateDocx \/ NewWordGenerator

SpecRender == InitRender /\ [][NextRender]_vars

\* The titles of a document, in order: one per recipe section
RECURSIVE TitlesOf(_)
TitlesOf(doc) ==
    IF doc = <<>> THEN <<>>
    ELSE IF Head(doc).el = "Title" THEN <<Head(doc).text>> \o TitlesOf(Tail(doc))
    ELSE TitlesOf(Tail(doc))

\* One page break between consecutive sections, none before the first
\* section or after the last
BreaksBetweenSections(doc) ==
    /\ \A k \in 1..Len(doc) :
         /\ doc[k].el = "PageBreak" => (1 < k /\ k < Len(doc) /\ doc[k + 1].el = "Title")
         /\ doc[k].el = "Title" => (k = 1 \/ doc[k - 1].el = "PageBreak")
    /\ doc # <<>> => doc[1].el = "Title"

C9_HoldsForEqualListsOnFirstCall ==
    (/\ rn.pc \in {"pdf", "docx"}
     /\ ~rn.raised
     /\ rn.first_call
     /\ Len(rn.recipe_list) = Len(rn.ai_instructions_list)) =>
        /\ TitlesOf(rn.file) = NamesOf(rn.recipe_list)
        /\ BreaksBetweenSections(rn.file)

\* C9 on the later calls of a WordGenerator instance, with two lists of equal
\* length: violated, the document still holds the sections of the earlier calls.
C9_OnLaterCallsOfWordGenerator ==
    (/\ rn.pc = "docx"
     /\ ~rn.raised
     /\ ~rn.first_call
     /\ Len(rn.recipe_list) = Len(rn.ai_instructions_list)) =>
        /\ TitlesOf(rn.file) = NamesOf(rn.recipe_list)
        /\ BreaksBetweenSections(rn.file)

=============================================================================
